---- MODULE Spec2Model ----
(***************************************************************************)
(* Model of oscal_matcher.py: flatten_controls_and_parts (the catalog      *)
(* flattener) and find_semantic_matches (the matching pipeline).           *)
(*                                                                         *)
(* A JSON object is a record whose DOMAIN is the set of keys it carries,   *)
(* so that `'prose' in p` is "prose" \in DOMAIN p.  Every group, control   *)
(* and part also carries the key "addr": the place of the object in the    *)
(* document.  It stands for the identity of the Python dict (two controls  *)
(* with equal fields are still two objects).  A sequence position i models *)
(* the Python index i-1.                                                   *)
(***************************************************************************)
EXTENDS Integers, Sequences, FiniteSets

VARIABLES
    catalog_data,      \* argument of a direct call of flatten_controls_and_parts
    flat_list,         \* what that call returned
    fpc,               \* position of the direct call: "call" | "returned"
    pc,                \* position of find_semantic_matches
    base_file,         \* what opening and parsing base_catalog_path gives
    merge_file,        \* what opening and parsing merge_catalog_path gives
    threshold,         \* argument threshold, in hundredths
    top_k,             \* argument top_k
    cosine,            \* the external embedding + cosine: a score per pair of texts
    base_flat_list,
    merge_flat_list,
    model_calls,       \* number of SentenceTransformer(...) constructions started
    encode_calls,      \* number of model.encode calls made
    base_embeddings,
    merge_embeddings,
    similarities,
    i,                 \* loop variable of the report loop
    top_indices,       \* top_indices of the latest iteration of the report loop
    exception,         \* the exception that ended the run, "none" if none did
    stdout             \* what was printed, in order

vars == <<catalog_data, flat_list, fpc, pc, base_file, merge_file, threshold, top_k,
          cosine, base_flat_list, merge_flat_list, model_calls, encode_calls,
          base_embeddings, merge_embeddings, similarities, i, top_indices, exception,
          stdout>>

(***************************************************************************)
(* Bounds of the model.                                                    *)
(***************************************************************************)
\* groups + controls + parts of a catalog given to the flattener directly
MaxNodes == 4
\* units of the base catalog of a run of find_semantic_matches
MaxBaseUnits == 2
\* units of the merge catalog of a run of find_semantic_matches
MaxMergeUnits == 2
\* largest top_k tried
MaxTopK == 2

\* Python's None
None == "<None>"

\* dict.get(key, default)
dict_get(d, key, default) == IF key \in DOMAIN d THEN d[key] ELSE default

(***************************************************************************)
(* The catalogs tried.  An optional key is given as a sequence of length 0 *)
(* (key absent) or 1 (key present with that value).                        *)
(***************************************************************************)
JsonObject(addr, idO, proseO, partsO, controlsO, groupsO) ==
    [k \in {"addr"} \cup (IF idO = <<>> THEN {} ELSE {"id"})
                    \cup (IF proseO = <<>> THEN {} ELSE {"prose"})
                    \cup (IF partsO = <<>> THEN {} ELSE {"parts"})
                    \cup (IF controlsO = <<>> THEN {} ELSE {"controls"})
                    \cup (IF groupsO = <<>> THEN {} ELSE {"groups"}) |->
        CASE k = "addr" -> addr
          [] k = "id" -> idO[1]
          [] k = "prose" -> proseO[1]
          [] k = "parts" -> partsO[1]
          [] k = "controls" -> controlsO[1]
          [] k = "groups" -> groupsO[1]]

\* the <<id, prose>> of a part: neither, both, prose alone, an empty prose
PartFields == { <<<<>>, <<>>>>, <<<<"ac-1_smt">>, <<"a">>>>, <<<<>>, <<"a">>>>,
                <<<<"ac-1_smt">>, <<"">>>> }
\* the <<id, prose>> of a control: each present or not, and an empty prose
ControlFields == { <<<<>>, <<>>>>, <<<<"AC-1">>, <<>>>>, <<<<>>, <<"b">>>>,
                   <<<<"AC-1">>, <<"b">>>>, <<<<"AC-1">>, <<"">>>> }

\* the sequences of parts with exactly n parts in all (sub-parts counted),
\* the first of them at position k below the object at address pre
RECURSIVE PartLists(_, _, _)
PartLists(n, pre, k) ==
    IF n = 0 THEN {<<>>}
    ELSE UNION { LET addr == Append(pre, <<"parts", k>>) IN
                 { <<JsonObject(addr, f[1], f[2],
                                IF sub = <<>> THEN <<>> ELSE <<sub>>, <<>>, <<>>)>> \o rest :
                     f \in PartFields,
                     sub \in PartLists(m - 1, addr, 1),
                     rest \in PartLists(n - m, pre, k + 1) }
               : m \in 1..n }

\* the sequences of controls with exactly n controls and parts in all; a
\* control without parts lacks the key, or (one with id and prose) carries an
\* empty list
RECURSIVE ControlLists(_, _, _)
ControlLists(n, pre, k) ==
    IF n = 0 THEN {<<>>}
    ELSE UNION { LET addr == Append(pre, <<"controls", k>>) IN
                 { <<JsonObject(addr, c[1][1], c[1][2], c[2], <<>>, <<>>)>> \o rest :
                     c \in IF m = 1
                           THEN { <<f, <<>>>> : f \in ControlFields }
                                  \cup { << <<<<"AC-1">>, <<"b">>>>, << <<>> >> >> }
                           ELSE { <<f, <<ps>>>> : f \in ControlFields,
                                                  ps \in PartLists(m - 1, addr, 1) },
                     rest \in ControlLists(n - m, pre, k + 1) }
               : m \in 1..n }

\* the sequences of groups with exactly n groups, controls and parts in all
RECURSIVE GroupLists(_, _, _)
GroupLists(n, pre, k) ==
    IF n = 0 THEN {<<>>}
    ELSE UNION { LET addr == Append(pre, <<"groups", k>>) IN
                 UNION { { <<JsonObject(addr, <<>>, <<>>, <<>>,
                                        IF cs = <<>> THEN <<>> ELSE <<cs>>,
                                        IF gs = <<>> THEN <<>> ELSE <<gs>>)>> \o rest :
                             cs \in ControlLists(c, addr, 1),
                             gs \in GroupLists(m - 1 - c, addr, 1),
                             rest \in GroupLists(n - m, pre, k + 1) }
                       : c \in 0..(m - 1) }
               : m \in 1..n }

\* documents: with catalog.groups of at most n objects, without 'groups',
\* without 'catalog'
Catalogs(n) ==
    { [catalog |-> [groups |-> gs]] : gs \in UNION { GroupLists(m, <<>>, 1) : m \in 0..n } }
      \cup { [catalog |-> [metadata |-> "m"]], [metadata |-> "m"] }

(***************************************************************************)
(* flatten_controls_and_parts.  flat_list.append is modelled by returning  *)
(* the appended items in the order of the appends.  An item carries, as    *)
(* the extra field "node", the object its text was read from.              *)
(***************************************************************************)
RECURSIVE process_part(_, _)
RECURSIVE sub_parts_loop(_, _)

\* for sub_part in p['parts']: process_part(sub_part, parent_control)
sub_parts_loop(parts, parent_control) ==
    IF parts = <<>> THEN <<>>
    ELSE process_part(Head(parts), parent_control)
             \o sub_parts_loop(Tail(parts), parent_control)

\* process_part with the enclosing part handed down as the parent
process_part_parent_is_part(p, parent_control) ==
    (IF "prose" \in DOMAIN p
     THEN << [id |-> dict_get(p, "id", dict_get(parent_control, "id", None)),
              parent_control |-> parent_control,
              text |-> p.prose,
              node |-> p] >>
     ELSE <<>>)
    \o (IF "parts" \in DOMAIN p THEN sub_parts_loop(p.parts, p) ELSE <<>>)

\* process_part with the control's id taken before the part's own
process_part_control_id_first(p, parent_control) ==
    (IF "prose" \in DOMAIN p
     THEN << [id |-> dict_get(parent_control, "id", dict_get(p, "id", None)),
              parent_control |-> parent_control,
              text |-> p.prose,
              node |-> p] >>
     ELSE <<>>)
    \o (IF "parts" \in DOMAIN p THEN sub_parts_loop(p.parts, parent_control) ELSE <<>>)

process_part(p, parent_control) ==
    (IF "prose" \in DOMAIN p
     THEN << [id |-> dict_get(p, "id", dict_get(parent_control, "id", None)),
              parent_control |-> parent_control,
              text |-> p.prose,
              node |-> p] >>
     ELSE <<>>)
    \o (IF "parts" \in DOMAIN p THEN sub_parts_loop(p.parts, parent_control) ELSE <<>>)

\* process_control without the test that the parts list is non-empty
process_control_any_parts_key(control) ==
    IF "parts" \in DOMAIN control
    THEN sub_parts_loop(control.parts, control)
    ELSE IF "prose" \in DOMAIN control
         THEN << [id |-> dict_get(control, "id", None),
                  parent_control |-> control,
                  text |-> control.prose,
                  node |-> control] >>
         ELSE <<>>

\* the body of `for control in group['controls']` for one control
process_control(control) ==
    IF "parts" \in DOMAIN control /\ control.parts # <<>>
    THEN sub_parts_loop(control.parts, control)
    ELSE IF "prose" \in DOMAIN control
         THEN << [id |-> dict_get(control, "id", None),
                  parent_control |-> control,
                  text |-> control.prose,
                  node |-> control] >>
         ELSE <<>>

RECURSIVE controls_loop(_)
controls_loop(controls) ==
    IF controls = <<>> THEN <<>>
    ELSE process_control(Head(controls)) \o controls_loop(Tail(controls))

RECURSIVE recurse_groups(_)

\* recurse_groups descending into the sub-groups before the group's controls
recurse_groups_subgroups_first(groups) ==
    IF groups = <<>> THEN <<>>
    ELSE LET group == Head(groups) IN
         (IF "groups" \in DOMAIN group THEN recurse_groups(group.groups) ELSE <<>>)
         \o (IF "controls" \in DOMAIN group THEN controls_loop(group.controls) ELSE <<>>)
         \o recurse_groups(Tail(groups))

recurse_groups(groups) ==
    IF groups = <<>> THEN <<>>
    ELSE LET group == Head(groups) IN
         (IF "controls" \in DOMAIN group THEN controls_loop(group.controls) ELSE <<>>)
         \o (IF "groups" \in DOMAIN group THEN recurse_groups(group.groups) ELSE <<>>)
         \o recurse_groups(Tail(groups))

flatten_controls_and_parts(data) ==
    IF "catalog" \in DOMAIN data /\ "groups" \in DOMAIN data.catalog
    THEN recurse_groups(data.catalog.groups)
    ELSE <<>>

(***************************************************************************)
(* find_semantic_matches: its inputs.                                      *)
(***************************************************************************)
\* threshold=0.65, in hundredths
DefaultThreshold == 65

Thresholds == {DefaultThreshold, 90}
TopKs == 0..MaxTopK
\* the scores the external cosine_similarity gives, in hundredths
ScoreValues == {30, 65, 95}
PipelineTexts == {"a", "b"}
ControlIds == <<"AC-1", "AC-2", "AC-3", "AC-4", "AC-5", "AC-6">>

\* a catalog whose units have the given texts, in this order: the first is the
\* prose of a sub-part of control AC-1 (the part above it has no prose), the
\* others are the direct prose of the controls of a sub-group
PipelineCatalog(texts) ==
    LET n == Len(texts)
        g1 == << <<"groups", 1>> >>
        c1 == Append(g1, <<"controls", 1>>)
        p1 == Append(c1, <<"parts", 1>>)
        p2 == Append(p1, <<"parts", 1>>)
        g2 == Append(g1, <<"groups", 1>>)
        sub_part == JsonObject(p2, <<"ac-1_smt.a">>, <<texts[1]>>, <<>>, <<>>, <<>>)
        part == JsonObject(p1, <<"ac-1_smt">>, <<>>, << <<sub_part>> >>, <<>>, <<>>)
        control == JsonObject(c1, <<"AC-1">>, <<>>, << <<part>> >>, <<>>, <<>>)
        group2 == JsonObject(g2, <<>>, <<>>, <<>>,
                      << [k \in 1..(n - 1) |->
                            JsonObject(Append(g2, <<"controls", k>>), <<ControlIds[k + 1]>>,
                                       <<texts[k + 1]>>, <<>>, <<>>, <<>>)] >>,
                      <<>>)
        group1 == JsonObject(g1, <<>>, <<>>, <<>>, << <<control>> >>,
                             IF n >= 2 THEN << <<group2>> >> ELSE <<>>)
    IN [catalog |-> [groups |-> IF n = 0 THEN <<>> ELSE <<group1>>]]

TextsUpTo(n) == UNION { [1..m -> PipelineTexts] : m \in 0..n }

\* what open + json.load give for a path: an exception or the parsed document
Files(n) == { [error |-> "FileNotFoundError"], [error |-> "JSONDecodeError"] }
              \cup { [json |-> PipelineCatalog(t)] : t \in TextsUpTo(n) }

(***************************************************************************)
(* The external calls.                                                     *)
(***************************************************************************)
\* model.encode(texts): one vector per text, in the order of the texts; a
\* vector is known by the text it encodes
encode(texts) == [k \in 1..Len(texts) |-> [vector_of |-> texts[k]]]

\* cosine_similarity(X, Y)[r][c] is the cosine of X[r] and Y[c]
cosine_similarity(X, Y, cos) ==
    [r \in 1..Len(X) |-> [c \in 1..Len(Y) |-> cos[X[r].vector_of, Y[c].vector_of]]]

\* the symmetric functions from pairs of texts to scores
Cosines == { cos \in [PipelineTexts \X PipelineTexts -> ScoreValues] :
               \A s, t \in PipelineTexts : cos[s, t] = cos[t, s] }

\* torch.topk(values, k) raises RuntimeError unless 0 <= k <= len(values)
torch_topk_raises(values, k) == k < 0 \/ k > Len(values)

\* the first k indices, whatever the values
torch_topk_first_k(values, k) == { [a \in 1..k |-> a] }

\* torch.topk(values, k).indices: k distinct indices of largest values, by
\* descending value.  torch leaves open which of several equal values is
\* taken and in what order they come, so every such outcome is allowed.
torch_topk(values, k) ==
    { s \in [1..k -> 1..Len(values)] :
        /\ \A a, b \in 1..k : a # b => s[a] # s[b]
        /\ \A a, b \in 1..k : a < b => values[s[a]] >= values[s[b]]
        /\ \A a \in 1..k : \A j \in 1..Len(values) :
              (\A b \in 1..k : s[b] # j) => values[j] <= values[s[a]] }

(***************************************************************************)
(* find_semantic_matches: its steps.                                       *)
(***************************************************************************)
\* the test of line 80 with `and` for `or`
corpus_empty_both(base, merge) == base = <<>> /\ merge = <<>>

\* line 80: `not base_flat_list or not merge_flat_list`
corpus_empty(base, merge) == base = <<>> \/ merge = <<>>

\* [item['text'] for item in flat]
texts_of(flat) == [k \in 1..Len(flat) |-> flat[k].text]

RECURSIVE matches_loop(_, _, _, _)

\* matches_loop without the test of line 119
matches_loop_no_threshold(indices, sim_scores, base, thr) ==
    IF indices = <<>> THEN <<>>
    ELSE LET base_item == base[Head(indices)] IN
         << [score |-> sim_scores[Head(indices)],
             control_id |-> dict_get(base_item.parent_control, "id", "N/A"),
             part_id |-> dict_get(base_item, "id", "N/A"),
             text |-> base_item.text] >>
         \o matches_loop(Tail(indices), sim_scores, base, thr)

\* lines 117-129: the matches printed for one merge unit, in printing order
matches_loop(indices, sim_scores, base, thr) ==
    IF indices = <<>> THEN <<>>
    ELSE LET index == Head(indices)
             score == sim_scores[index]
             base_item == base[index]
         IN (IF score >= thr
             THEN << [score |-> score,
                      control_id |-> dict_get(base_item.parent_control, "id", "N/A"),
                      part_id |-> dict_get(base_item, "id", "N/A"),
                      text |-> base_item.text] >>
             ELSE <<>>)
            \o matches_loop(Tail(indices), sim_scores, base, thr)

\* lines 108-132: what one iteration of the report loop prints
report_block(merge_item, indices, sim_scores, base, thr) ==
    LET matches == matches_loop(indices, sim_scores, base, thr) IN
    [kind |-> "block",
     control_id |-> dict_get(merge_item.parent_control, "id", "N/A"),
     part_id |-> dict_get(merge_item, "id", "N/A"),
     text |-> merge_item.text,
     matches |-> matches,
     no_strong_matches |-> (matches = <<>>)]

print_line(kind) == stdout' = Append(stdout, [kind |-> kind])

FlattenIdle == catalog_data = [metadata |-> "m"] /\ flat_list = <<>> /\ fpc = "idle"

InitPipeline ==
    /\ FlattenIdle
    /\ pc = "load"
    /\ base_file \in Files(MaxBaseUnits)
    /\ merge_file \in Files(MaxMergeUnits)
    /\ threshold \in Thresholds
    /\ top_k \in TopKs
    /\ cosine = <<>>
    /\ base_flat_list = <<>> /\ merge_flat_list = <<>>
    /\ model_calls = 0 /\ encode_calls = 0
    /\ base_embeddings = <<>> /\ merge_embeddings = <<>>
    /\ similarities = <<>>
    /\ i = 0 /\ top_indices = <<>>
    /\ exception = "none"
    /\ stdout = <<>>

inputs == <<catalog_data, flat_list, fpc, base_file, merge_file, threshold, top_k>>

\* the first file that cannot be loaded, if any: the base file is opened first
load_error ==
    IF "error" \in DOMAIN base_file THEN base_file.error
    ELSE IF "error" \in DOMAIN merge_file THEN merge_file.error
    ELSE "none"

\* lines 63-68, both files load
LoadCatalogs ==
    /\ pc = "load" /\ load_error = "none"
    /\ print_line("Loading catalogs...")
    /\ pc' = "flatten"
    /\ UNCHANGED <<inputs, cosine, base_flat_list, merge_flat_list, model_calls,
                   encode_calls, base_embeddings, merge_embeddings, similarities, i,
                   top_indices, exception>>

\* lines 63-74, a file is missing or is no JSON: message and return
LoadCatalogsFails ==
    /\ pc = "load" /\ load_error # "none"
    /\ stdout' = stdout \o << [kind |-> "Loading catalogs..."],
                              [kind |-> "Error: " \o load_error] >>
    /\ pc' = "done"
    /\ UNCHANGED <<inputs, cosine, base_flat_list, merge_flat_list, model_calls,
                   encode_calls, base_embeddings, merge_embeddings, similarities, i,
                   top_indices, exception>>

\* lines 76-78
FlattenCatalogs ==
    /\ pc = "flatten"
    /\ print_line("Flattening controls and parts from both catalogs...")
    /\ base_flat_list' = flatten_controls_and_parts(base_file.json)
    /\ merge_flat_list' = flatten_controls_and_parts(merge_file.json)
    /\ pc' = "check"
    /\ UNCHANGED <<inputs, cosine, model_calls, encode_calls, base_embeddings,
                   merge_embeddings, similarities, i, top_indices, exception>>

\* lines 80-82
EmptyCorpus ==
    /\ pc = "check" /\ corpus_empty(base_flat_list, merge_flat_list)
    /\ print_line("Error: No controls or parts with prose found in one or both catalogs.")
    /\ pc' = "done"
    /\ UNCHANGED <<inputs, cosine, base_flat_list, merge_flat_list, model_calls,
                   encode_calls, base_embeddings, merge_embeddings, similarities, i,
                   top_indices, exception>>

\* lines 84-88; the model load is external and may raise
LoadModel ==
    /\ pc = "check" /\ ~corpus_empty(base_flat_list, merge_flat_list)
    /\ print_line("Loading sentence transformer model...")
    /\ model_calls' = model_calls + 1
    /\ \/ pc' = "encode" /\ UNCHANGED exception
       \/ pc' = "raised" /\ exception' = "model load failed"
    /\ UNCHANGED <<inputs, cosine, base_flat_list, merge_flat_list, encode_calls,
                   base_embeddings, merge_embeddings, similarities, i, top_indices>>

\* lines 90-92; an encode call is external and may raise
Encode ==
    /\ pc = "encode"
    /\ print_line("Encoding control and part descriptions into vectors...")
    /\ \/ /\ base_embeddings' = encode(texts_of(base_flat_list))
          /\ merge_embeddings' = encode(texts_of(merge_flat_list))
          /\ encode_calls' = encode_calls + 2
          /\ pc' = "similarities" /\ UNCHANGED exception
       \/ /\ encode_calls' = encode_calls + 1
          /\ pc' = "raised" /\ exception' = "encode failed"
          /\ UNCHANGED <<base_embeddings, merge_embeddings>>
    /\ UNCHANGED <<inputs, cosine, base_flat_list, merge_flat_list, model_calls,
                   similarities, i, top_indices>>

\* lines 94-95
Similarities ==
    /\ pc = "similarities"
    /\ print_line("Calculating similarities...")
    /\ \E cos \in Cosines :
          /\ cosine' = cos
          /\ similarities' = cosine_similarity(merge_embeddings, base_embeddings, cos)
    /\ pc' = "header"
    /\ UNCHANGED <<inputs, base_flat_list, merge_flat_list, model_calls, encode_calls,
                   base_embeddings, merge_embeddings, i, top_indices, exception>>

\* lines 97-100
ReportHeader ==
    /\ pc = "header"
    /\ print_line("--- Potential Control Matches Report ---")
    /\ i' = 1
    /\ pc' = "loop"
    /\ UNCHANGED <<inputs, cosine, base_flat_list, merge_flat_list, model_calls,
                   encode_calls, base_embeddings, merge_embeddings, similarities,
                   top_indices, exception>>

\* lines 102-132, one iteration of the loop over merge_flat_list
ReportUnit ==
    /\ pc = "loop" /\ i <= Len(merge_flat_list)
    /\ ~torch_topk_raises(similarities[i], top_k)
    /\ \E indices \in torch_topk(similarities[i], top_k) :
          /\ top_indices' = indices
          /\ stdout' = Append(stdout, report_block(merge_flat_list[i], indices,
                                  similarities[i], base_flat_list, threshold))
    /\ i' = i + 1
    /\ UNCHANGED <<inputs, pc, cosine, base_flat_list, merge_flat_list, model_calls,
                   encode_calls, base_embeddings, merge_embeddings, similarities,
                   exception>>

\* line 106 raises: the exception leaves find_semantic_matches
ReportUnitRaises ==
    /\ pc = "loop" /\ i <= Len(merge_flat_list)
    /\ torch_topk_raises(similarities[i], top_k)
    /\ pc' = "raised" /\ exception' = "RuntimeError: selected index k out of range"
    /\ UNCHANGED <<inputs, cosine, base_flat_list, merge_flat_list, model_calls,
                   encode_calls, base_embeddings, merge_embeddings, similarities, i,
                   top_indices, stdout>>

\* the loop is exhausted: find_semantic_matches returns
ReportEnd ==
    /\ pc = "loop" /\ i > Len(merge_flat_list)
    /\ pc' = "done"
    /\ UNCHANGED <<inputs, cosine, base_flat_list, merge_flat_list, model_calls,
                   encode_calls, base_embeddings, merge_embeddings, similarities, i,
                   top_indices, exception, stdout>>

(***************************************************************************)
(* A direct call of the flattener on any catalog of the bounded set.       *)
(***************************************************************************)
InitFlatten ==
    /\ catalog_data \in Catalogs(MaxNodes)
    /\ flat_list = <<>>
    /\ fpc = "call"
    /\ pc = "idle"
    /\ base_file = [error |-> "FileNotFoundError"]
    /\ merge_file = [error |-> "FileNotFoundError"]
    /\ threshold = DefaultThreshold /\ top_k = 0
    /\ cosine = <<>>
    /\ base_flat_list = <<>> /\ merge_flat_list = <<>>
    /\ model_calls = 0 /\ encode_calls = 0
    /\ base_embeddings = <<>> /\ merge_embeddings = <<>>
    /\ similarities = <<>>
    /\ i = 0 /\ top_indices = <<>>
    /\ exception = "none"
    /\ stdout = <<>>

Flatten ==
    /\ fpc = "call"
    /\ flat_list' = flatten_controls_and_parts(catalog_data)
    /\ fpc' = "returned"
    /\ UNCHANGED <<catalog_data, pc, base_file, merge_file, threshold, top_k, cosine,
                   base_flat_list, merge_flat_list, model_calls, encode_calls,
                   base_embeddings, merge_embeddings, similarities, i, top_indices,
                   exception, stdout>>

(***************************************************************************)
(* The program: a direct call of flatten_controls_and_parts, or a run of   *)
(* find_semantic_matches.                                                  *)
(***************************************************************************)
Init == InitFlatten \/ InitPipeline

Next ==
    \/ Flatten
    \/ LoadCatalogs
    \/ LoadCatalogsFails
    \/ FlattenCatalogs
    \/ EmptyCorpus
    \/ LoadModel
    \/ Encode
    \/ Similarities
    \/ ReportHeader
    \/ ReportUnit
    \/ ReportUnitRaises
    \/ ReportEnd

Spec == Init /\ [][Next]_vars

(***************************************************************************)
(* Vocabulary of the properties.                                           *)
(***************************************************************************)
SeqRange(q) == { q[k] : k \in 1..Len(q) }

IsBlock(e) == e.kind = "block"
IsHeader(e) == e.kind = "--- Potential Control Matches Report ---"

\* the per-unit blocks printed so far, in printing order
Blocks == SelectSeq(stdout, IsBlock)
HeaderPrinted == \E k \in 1..Len(stdout) : IsHeader(stdout[k])

Descending(q) == \A a, b \in 1..Len(q) : a < b => q[a] >= q[b]

\* the object of the document at an address
RECURSIVE Descend(_, _)
Descend(obj, addr) ==
    IF addr = <<>> THEN obj
    ELSE Descend(obj[Head(addr)[1]][Head(addr)[2]], Tail(addr))
ObjectAt(data, addr) == Descend(data.catalog, addr)

LastKey(addr) == addr[Len(addr)][1]
FromPart(u) == LastKey(u.node.addr) = "parts"
FromControl(u) == LastKey(u.node.addr) = "controls"
\* number of parts on the path to the object: its nesting depth
PartDepth(addr) == Cardinality({ k \in 1..Len(addr) : addr[k][1] = "parts" })
\* the address of the control on the path to a part
ControlOf(addr) ==
    SubSeq(addr, 1, CHOOSE k \in 1..Len(addr) : addr[k][1] = "controls")

\* document order of two addresses: an object before the objects below it,
\* siblings by position, a group's controls before its sub-groups
Precedes(a, b) ==
    LET differ == { k \in 1..Len(a) : k <= Len(b) /\ a[k] # b[k] } IN
    IF differ = {} THEN Len(a) < Len(b)
    ELSE LET d == CHOOSE k \in differ : \A m \in differ : k <= m IN
         IF a[d][1] = b[d][1] THEN a[d][2] < b[d][2]
         ELSE a[d][1] = "controls" /\ b[d][1] = "groups"

InTraversalOrder(flat) ==
    \A j, k \in 1..Len(flat) : j < k => Precedes(flat[j].node.addr, flat[k].node.addr)

\* every control of a list of groups, at any depth
RECURSIVE ControlsIn(_)
ControlsIn(groups) ==
    UNION { (IF "controls" \in DOMAIN g THEN SeqRange(g.controls) ELSE {})
            \cup (IF "groups" \in DOMAIN g THEN ControlsIn(g.groups) ELSE {})
          : g \in SeqRange(groups) }
AllControls(data) ==
    IF "catalog" \in DOMAIN data /\ "groups" \in DOMAIN data.catalog
    THEN ControlsIn(data.catalog.groups) ELSE {}

Min(a, b) == IF a <= b THEN a ELSE b
TopKError == "RuntimeError: selected index k out of range"

(***************************************************************************)
(* C1: the matches reported for a merge unit number at most top_k, each    *)
(* has a score >= threshold, and their scores are non-increasing in the    *)
(* order reported.                                                         *)
(***************************************************************************)
C1_MatchesBounded ==
    \A k \in 1..Len(Blocks) :
        LET matches == Blocks[k].matches IN
        /\ Len(matches) <= top_k
        /\ \A m \in 1..Len(matches) : matches[m].score >= threshold
        /\ Descending([m \in 1..Len(matches) |-> matches[m].score])

\* a unit with top_k = 2 matches of different scores, the higher one being the
\* second base unit
C1_Witness ==
    \E k \in 1..Len(Blocks) :
        /\ Len(Blocks[k].matches) = 2 /\ top_k = 2
        /\ Blocks[k].matches[1].score > Blocks[k].matches[2].score
        /\ Blocks[k].matches[1].part_id = "AC-2"

(***************************************************************************)
(* C2: for top_k >= 0 and a non-empty base sequence of n units the         *)
(* selection considers exactly min(top_k, n) candidates and raises no      *)
(* error.                                                                  *)
(***************************************************************************)
C2_SelectionTotal ==
    (top_k >= 0 /\ base_flat_list # <<>>) =>
        /\ exception # TopKError
        /\ (pc \in {"loop", "done"} /\ i > 1) =>
               Len(top_indices) = Min(top_k, Len(base_flat_list))

(***************************************************************************)
(* C3: a run that has ended, by return or by an exception, has printed     *)
(* either no report at all (no header, no block) or the header and exactly *)
(* one block per merge unit, in flattening order.                          *)
(***************************************************************************)
C3_FullReportOrNone ==
    pc \in {"done", "raised"} =>
        \/ ~HeaderPrinted /\ Blocks = <<>>
        \/ /\ HeaderPrinted
           /\ Len(Blocks) = Len(merge_flat_list)
           /\ \A k \in 1..Len(Blocks) : Blocks[k].text = merge_flat_list[k].text

(***************************************************************************)
(* C4: no unit returned by flatten_controls_and_parts has an empty text.   *)
(***************************************************************************)
C4_NoEmptyText ==
    fpc = "returned" => \A k \in 1..Len(flat_list) : flat_list[k].text # ""

(***************************************************************************)
(* C5: when flattening the base or the merge catalog gives no unit, the    *)
(* run prints the empty-corpus message and returns; the model is never     *)
(* loaded, encode is never called and no report is printed.  The model is  *)
(* loaded and encode called only with both lists non-empty.                *)
(***************************************************************************)
EmptyCorpusMessage == "Error: No controls or parts with prose found in one or both catalogs."

\* lines 76-78 have run
Flattened ==
    \E k \in 1..Len(stdout) :
        stdout[k].kind = "Flattening controls and parts from both catalogs..."

C5_EmptyCorpusAborts ==
    /\ (Flattened /\ (base_flat_list = <<>> \/ merge_flat_list = <<>>)) =>
           /\ model_calls = 0 /\ encode_calls = 0
           /\ base_embeddings = <<>> /\ merge_embeddings = <<>>
           /\ ~HeaderPrinted /\ Blocks = <<>>
           /\ pc \in {"check", "done"}
           /\ pc = "done" => stdout[Len(stdout)].kind = EmptyCorpusMessage
    /\ (model_calls > 0 \/ encode_calls > 0) =>
           base_flat_list # <<>> /\ merge_flat_list # <<>>

\* the merge catalog alone gives no unit, and the run has returned
C5_Witness ==
    /\ pc = "done" /\ Flattened
    /\ merge_flat_list = <<>> /\ base_flat_list # <<>>
    /\ stdout[Len(stdout)].kind = EmptyCorpusMessage

(***************************************************************************)
(* C6: a unit emitted from a part, at any nesting depth, has as            *)
(* parent_control the control of the document under which the part lies.   *)
(***************************************************************************)
C6_ParentIsTopLevelControl ==
    fpc = "returned" =>
        \A k \in 1..Len(flat_list) :
            LET u == flat_list[k] IN
            FromPart(u) =>
                /\ LastKey(u.parent_control.addr) = "controls"
                /\ u.parent_control.addr = ControlOf(u.node.addr)
                /\ u.parent_control = ObjectAt(catalog_data, ControlOf(u.node.addr))

\* a unit from a sub-part whose enclosing part has an id of its own
C6_Witness ==
    /\ fpc = "returned"
    /\ \E k \in 1..Len(flat_list) :
          LET a == flat_list[k].node.addr IN
          /\ PartDepth(a) = 2
          /\ "id" \in DOMAIN ObjectAt(catalog_data, SubSeq(a, 1, Len(a) - 1))

(***************************************************************************)
(* C7: the returned sequence is in traversal order (groups, their controls *)
(* and the parts of a control in document order, a part before its         *)
(* sub-parts, a group's controls before its sub-groups), and the position  *)
(* of a unit is its row (merge) or column (base) in the score matrix and   *)
(* in the report.                                                          *)
(***************************************************************************)
C7_TraversalOrderIsIndex ==
    /\ InTraversalOrder(flat_list)
    /\ InTraversalOrder(base_flat_list)
    /\ InTraversalOrder(merge_flat_list)
    /\ (pc = "header" \/ HeaderPrinted) =>
          /\ Len(similarities) = Len(merge_flat_list)
          /\ \A r \in 1..Len(merge_flat_list) :
                /\ Len(similarities[r]) = Len(base_flat_list)
                /\ \A c \in 1..Len(base_flat_list) :
                      similarities[r][c] =
                          cosine[merge_flat_list[r].text, base_flat_list[c].text]
    /\ \A k \in 1..Len(Blocks) :
          /\ k <= Len(merge_flat_list)
          /\ Blocks[k].part_id = merge_flat_list[k].id
          /\ Blocks[k].control_id = merge_flat_list[k].parent_control.id
          /\ Blocks[k].text = merge_flat_list[k].text
    /\ (pc \in {"loop", "done"} /\ i > 1) =>
          LET shown == SelectSeq(top_indices,
                                 LAMBDA c : similarities[i - 1][c] >= threshold)
              matches == Blocks[i - 1].matches
          IN /\ Len(matches) = Len(shown)
             /\ \A m \in 1..Len(shown) :
                   /\ matches[m].score = similarities[i - 1][shown[m]]
                   /\ matches[m].part_id = base_flat_list[shown[m]].id
                   /\ matches[m].text = base_flat_list[shown[m]].text

\* the block of the first merge unit (a sub-part) names the second base unit
\* (a control of the sub-group) as its only match, and the block of the second
\* merge unit names the first base unit
C7_Witness ==
    /\ pc = "loop" /\ i = 3
    /\ Len(Blocks) = 2 /\ Len(base_flat_list) = 2
    /\ Blocks[1].part_id = "ac-1_smt.a" /\ Len(Blocks[1].matches) = 1
    /\ Blocks[1].matches[1].part_id = "AC-2"
    /\ Blocks[2].part_id = "AC-2" /\ Len(Blocks[2].matches) = 1
    /\ Blocks[2].matches[1].part_id = "ac-1_smt.a"

(***************************************************************************)
(* C8: the id of a unit emitted from a part is the part's own id when it   *)
(* has one and otherwise the id of the parent control; the id of a unit    *)
(* emitted from a control's direct prose is the control's id.              *)
(***************************************************************************)
C8_UnitId ==
    fpc = "returned" =>
        \A k \in 1..Len(flat_list) :
            LET u == flat_list[k]
                control == ObjectAt(catalog_data, ControlOf(u.node.addr))
                control_id == IF "id" \in DOMAIN control THEN control.id ELSE None
            IN /\ FromPart(u) =>
                     u.id = (IF "id" \in DOMAIN u.node THEN u.node.id ELSE control_id)
               /\ FromControl(u) => u.id = control_id

\* a part without id under a control with one, and a part with an id
C8_Witness ==
    /\ fpc = "returned"
    /\ \E k \in 1..Len(flat_list) :
          /\ FromPart(flat_list[k]) /\ "id" \notin DOMAIN flat_list[k].node
          /\ flat_list[k].id = "AC-1"
    /\ \E k \in 1..Len(flat_list) :
          /\ FromPart(flat_list[k]) /\ "id" \in DOMAIN flat_list[k].node
          /\ flat_list[k].id # flat_list[k].parent_control.id

C10_DirectProse ==
    fpc = "returned" =>
        \A control \in AllControls(catalog_data) :
            (\E k \in 1..Len(flat_list) : flat_list[k].node = control)
                <=> /\ "prose" \in DOMAIN control
                    /\ ("parts" \notin DOMAIN control \/ control.parts = <<>>)

\* a control with prose and an empty parts list emits it; another control
\* with prose, whose only part has no prose, emits nothing
C10_Witness ==
    /\ fpc = "returned" /\ Len(flat_list) = 1
    /\ \E c1, c2 \in AllControls(catalog_data) :
          /\ "prose" \in DOMAIN c1 /\ "parts" \in DOMAIN c1 /\ c1.parts = <<>>
          /\ flat_list[1].node = c1
          /\ "prose" \in DOMAIN c2 /\ "parts" \in DOMAIN c2 /\ c2.parts # <<>>

====
